---- MODULE Spec2Model ----
(***************************************************************************)
(* Model of the conversational turn handler of backend/app/api/chat.py:    *)
(* the in-memory session records (session_context[session_id]), the        *)
(* chat_sessions table and the chat_endpoint handler that reads and        *)
(* updates them on every turn.                                             *)
(*                                                                         *)
(* A product snapshot is modelled by its shopify_id (1..NumProducts);      *)
(* 0 stands for Python's None.  A message is modelled by what the regular  *)
(* expressions and the classifier extract from it.                         *)
(***************************************************************************)
EXTENDS Integers, Sequences, FiniteSets, TLC

\* ---------------------------------------------------------------- bounds
NumProducts == 6
MaxPage == 2
MaxLen == 3
MaxTurns == 3

\* ------------------------------------------------------ program constants
HistoryLimit == 10
PageSize == 5

NoProduct == 0
NoneStr == ""

Catalog == 1..NumProducts
UnknownId == NumProducts + 1

Min(a, b) == IF a < b THEN a ELSE b

\* ------------------------------------------------------------ data stores
\* The orders table: one order, number 1234, placed with a@b.com.
OrdersDB == { [order_number |-> 1234, email |-> "a@b.com"] }

\* int(order_number): the numeric strings and their values; any other
\* string raises ValueError.
IntValue == [n \in {"1234", "5678"} |-> IF n = "1234" THEN 1234 ELSE 5678]
IsNumeric(n) == n \in DOMAIN IntValue

\* str.lower() on the query strings of the model.
Lower(q) == IF q = "Shirt" THEN "shirt" ELSE q

\* find_product_by_id: the snapshot of a catalog product, None otherwise.
find_product_by_id(shopify_id) ==
    IF shopify_id \in Catalog THEN shopify_id ELSE NoProduct

\* The products of the catalog with the given ids, in table order.
RECURSIVE SortedSeq(_)
SortedSeq(S) ==
    IF S = {} THEN << >>
    ELSE LET m == CHOOSE x \in S : \A y \in S : x <= y
         IN << m >> \o SortedSeq(S \ {m})

\* list[start_idx:end_idx] of Python, 0-based and clamped.
Slice(list, start_idx, end_idx) ==
    SubSeq(list, start_idx + 1, Min(end_idx, Len(list)))

\* conversation_history[-10:]
LastN(list, n) ==
    IF Len(list) > n THEN SubSeq(list, Len(list) - n + 1, Len(list)) ELSE list

\* ------------------------------------------------------- safe_float_convert
\* A text is the sequence of its characters; a float is the fraction
\* num / den with den a power of ten.
Digits == {"0", "1", "2", "3", "4", "5", "6", "7", "8", "9"}

DigitValue(c) ==
    CASE c = "0" -> 0 [] c = "1" -> 1 [] c = "2" -> 2 [] c = "3" -> 3
      [] c = "4" -> 4 [] c = "5" -> 5 [] c = "6" -> 6 [] c = "7" -> 7
      [] c = "8" -> 8 [] c = "9" -> 9

Float(num, den) == [num |-> num, den |-> den]

\* re.sub(r'[^\d.,]', '', value)
Cleaned(chars) == SelectSeq(chars, LAMBDA c : c \in Digits \cup {".", ","})

\* cleaned.replace(',', '.')
CommaToDot(chars) == [i \in DOMAIN chars |-> IF chars[i] = "," THEN "." ELSE chars[i]]

\* The number written by a sequence of digits.
RECURSIVE DecimalValue(_)
DecimalValue(digits) ==
    IF digits = << >> THEN 0
    ELSE 10 * DecimalValue(SubSeq(digits, 1, Len(digits) - 1))
         + DigitValue(digits[Len(digits)])

RECURSIVE PowerOfTen(_)
PowerOfTen(n) == IF n = 0 THEN 1 ELSE 10 * PowerOfTen(n - 1)

\* float(text) accepts digits with at most one point and at least one digit.
IsFloatText(chars) ==
    /\ Len(SelectSeq(chars, LAMBDA c : c = ".")) <= 1
    /\ SelectSeq(chars, LAMBDA c : c \in Digits) # << >>

\* float(text) of a text that float accepts.
FloatOfText(chars) ==
    LET digits == SelectSeq(chars, LAMBDA c : c \in Digits)
        point == IF \E i \in DOMAIN chars : chars[i] = "."
                 THEN CHOOSE i \in DOMAIN chars : chars[i] = "."
                 ELSE Len(chars)
    IN Float(DecimalValue(digits), PowerOfTen(Len(chars) - point))

\* safe_float_convert: None and what float() rejects give 0.0.
safe_float_convert(value) ==
    IF value.type = "None" THEN Float(0, 1)
    ELSE IF value.type = "str"
    THEN LET cleaned == Cleaned(value.chars)
         IN IF cleaned = << >> THEN Float(0, 1)
            ELSE IF IsFloatText(CommaToDot(cleaned))
            THEN FloatOfText(CommaToDot(cleaned))
            ELSE Float(0, 1)
    ELSE Float(value.n, 1)

\* ------------------------------------------------------------------ state
\*   session_context  the module-level dict: session id -> session record
\*   chat_sessions    the rows of the chat_sessions table, least recently
\*                    active first
\*   request, analysis, response   the last turn: what came in, what the
\*                    resolver made of it, what went out
\*   conversion       a call of safe_float_convert: its argument and result
\*   tasks            the calls of chat_endpoint the event loop has accepted
\*                    and not yet answered, each with its position
\*   extraction       a call of extract_product_options: its argument and
\*                    result
VARIABLES session_context, chat_sessions, request, analysis, response,
          conversion, tasks, extraction

vars == << session_context, chat_sessions, request, analysis, response,
           conversion, tasks, extraction >>

\* session_context[session_id] as created on the first turn of a session.
NewSession ==
    [ selected_product_id    |-> NoProduct,
      conversation_history   |-> << >>,
      context_product        |-> NoProduct,
      numbered_products      |-> << >>,
      recent_search_products |-> << >>,
      selected_product       |-> NoProduct,
      pending_order_email    |-> NoneStr,
      pending_order_number   |-> NoneStr,
      cached_search_results  |-> << >>,
      cached_search_query    |-> NoneStr ]


\* ChatMessage as the handler sees it: the fields of the request together
\* with what the patterns and the classifier extract from the message text.
\*   positions  the position each position pattern parses from its first
\*              match, in pattern order (0: matched, but neither an ordinal
\*              word nor digits); patterns that do not match are left out
\*   max_results, price_max   parse_user_preferences (0: None)
\*   similar    show_similar_to_id of parse_user_preferences (0: None)
\*   qpat       some product_question_patterns entry matches
\*   kw         the message contains one of product_keywords
\*   qtype      the question type its keywords select
\*   intent, keywords, cl_order_number, cl_email   the classifier's output
\*   rx_order_number, rx_email                     extract_order_info
\*   hits       the catalog ids the ranked search returns for the query
\*   session_id ("" : None), persist, persist_assistant   the session id
\*              sent and how the two persistence blocks end
\*   fault      the database query that raises during this turn
\*   classifier_failed   the classifier call raised or returned no JSON
\*   related_hits, popular_hits   what the suggestion searches return
DefaultRequest ==
    [ email               |-> "u@x.com",
      session_id          |-> "s1",
      persist             |-> "ok",
      persist_assistant   |-> TRUE,
      fault               |-> "none",
      classifier_failed   |-> FALSE,
      confidence          |-> 9,
      related_hits        |-> {},
      popular_hits        |-> {},
      selected_product_id |-> NoProduct,
      page_number         |-> 1,
      positions           |-> << >>,
      similar             |-> 0,
      qpat                |-> FALSE,
      kw                  |-> FALSE,
      qtype               |-> "general",
      price_max           |-> 0,
      max_results         |-> 0,
      intent              |-> "GENERAL_CHAT",
      keywords            |-> NoneStr,
      message             |-> "hello",
      cl_order_number     |-> NoneStr,
      cl_email            |-> NoneStr,
      rx_order_number     |-> NoneStr,
      rx_email            |-> NoneStr,
      hits                |-> {} ]

\* ChatResponse, with the collaborator calls the turn made:
\*   kind             which reply text the handler chose
\*   answered_product the product the reply text is about (0: none)
\*   search_calls     the queries sent to vector_service.search_products
\*   order_lookup     the (order_number, email) pairs looked up in the database
\*   order_number, order_email   the merged slots the order reply is worded with
\*   confidence       in tenths
\*   raised           the exception the outer handler caught ("" : none)
\*   status_code      the HTTP status: 200 for every ChatResponse returned
DefaultResponse ==
    [ kind                |-> "none",
      status_code         |-> 200,
      intent              |-> "GENERAL_CHAT",
      confidence          |-> 5,
      suggestions         |-> << >>,
      show_suggestions_slider |-> FALSE,
      total_suggestions   |-> 0,
      has_more_suggestions |-> FALSE,
      suggested_questions |-> << >>,
      raised              |-> NoneStr,
      exact_matches       |-> << >>,
      show_exact_slider   |-> FALSE,
      total_exact_matches |-> 0,
      current_page        |-> 1,
      has_more_exact      |-> FALSE,
      orders              |-> << >>,
      context_product     |-> NoProduct,
      answered_product    |-> NoProduct,
      search_calls        |-> << >>,
      order_lookup        |-> << >>,
      order_number        |-> NoneStr,
      order_email         |-> NoneStr ]

NoAnalysis ==
    [ is_product_question |-> FALSE,
      question_type       |-> "general",
      should_use_context  |-> FALSE,
      target_product      |-> NoProduct ]

\* session_context[session_id], as the handler finds or creates it.
SessionOf(ctx, session_id) ==
    IF session_id \in DOMAIN ctx THEN ctx[session_id] ELSE NewSession

\* session_context[session_id] = s
PutSession(ctx, session_id, s) ==
    [x \in DOMAIN ctx \cup {session_id} |-> IF x = session_id THEN s ELSE ctx[x]]

\* del session_context[session_id]
DelSession(ctx, session_id) ==
    [x \in DOMAIN ctx \ {session_id} |-> ctx[x]]

\* The record of the session whose id the client sends by default.
session == SessionOf(session_context, DefaultRequest.session_id)

\* ------------------------------------------------------ persistence blocks
\* The key of the in-memory record when no session id is known.
DefaultSessionId == "default"

\* The values uuid4() can return.
UuidPool == {"uuid-1", "uuid-2"}

\* (chat_message.email or "").strip().lower()
Strip(email) == IF email = " " THEN NoneStr ELSE email

\* The ids of the rows of chat_sessions.
SessionIds(db) == {db[i].id : i \in DOMAIN db}

\* The user of the chat_sessions row with the given id.
SessionUser(db, id) == db[CHOOSE i \in DOMAIN db : db[i].id = id].user

\* The user's session with the latest last_activity_at ("" : none).
LastSession(db, email_val) ==
    LET own == {i \in DOMAIN db : db[i].user = email_val}
    IN IF own = {} THEN NoneStr
       ELSE db[CHOOSE i \in own : \A j \in own : j <= i].id

\* uuid4(): an id that no session has yet.
FreshUuids(ctx, db) == UuidPool \ (DOMAIN ctx \cup SessionIds(db))

uuid4(ctx, db) ==
    CHOOSE u \in UuidPool : FreshUuids(ctx, db) # {} => u \in FreshUuids(ctx, db)

\* resolved_session_id: the id sent, else the user's most recent session,
\* else a new one.
resolved_session_id(ctx, db, req) ==
    IF req.session_id # NoneStr THEN req.session_id
    ELSE IF LastSession(db, Strip(req.email)) # NoneStr
    THEN LastSession(db, Strip(req.email))
    ELSE uuid4(ctx, db)

\* The turn draws a new session id.
NeedsUuid(db, req) ==
    /\ req.session_id = NoneStr
    /\ LastSession(db, Strip(req.email)) = NoneStr
    /\ req.persist # "failed_before"

\* The block that persists the user turn.  It ends well ("ok"), or raises
\* before the session row is resolved ("failed_before": session_id stays
\* the one sent, or "default") or after ("failed_after"); a session id
\* that belongs to another user cannot be inserted again and raises before.
\* Every failure is rolled back.
PersistUserTurn(ctx, db, req) ==
    LET email_val == Strip(req.email)
        resolved == resolved_session_id(ctx, db, req)
        exists == resolved \in SessionIds(db)
        outcome == IF exists /\ SessionUser(db, resolved) # email_val
                   THEN "failed_before" ELSE req.persist
    IN IF outcome = "failed_before"
       THEN [ session_id |-> IF req.session_id # NoneStr THEN req.session_id
                             ELSE DefaultSessionId,
              db |-> db,
              session_db |-> NoneStr ]
       ELSE IF outcome = "failed_after"
       THEN [ session_id |-> resolved, db |-> db, session_db |-> resolved ]
       ELSE [ session_id |-> resolved,
              db |-> IF exists THEN db
                     ELSE Append(db, [id |-> resolved, user |-> email_val]),
              session_db |-> resolved ]

\* The block that persists the assistant turn: when it commits, the
\* session row becomes the most recently active one.
PersistAssistantTurn(db, session_db, req) ==
    IF session_db # NoneStr /\ session_db \in SessionIds(db) /\ req.persist_assistant
    THEN SelectSeq(db, LAMBDA row : row.id # session_db)
         \o << [id |-> session_db, user |-> SessionUser(db, session_db)] >>
    ELSE db

\* ---------------------------------------------------------- collaborators
\* Faulty variant: a failed call falls back to general chat.
analyze_user_intent_GeneralChat(req) ==
    IF req.classifier_failed
    THEN [req EXCEPT !.intent = "GENERAL_CHAT",
                     !.confidence = 5,
                     !.keywords = NoneStr,
                     !.cl_order_number = NoneStr,
                     !.cl_email = NoneStr]
    ELSE req

\* analyze_user_intent_with_context: the request with the classifier's
\* output; when the call fails, the fallback output.
analyze_user_intent_with_context(req) ==
    IF req.classifier_failed
    THEN [req EXCEPT !.intent = "PRODUCT_SEARCH",
                     !.confidence = 5,
                     !.keywords = req.message,
                     !.cl_order_number = NoneStr,
                     !.cl_email = NoneStr]
    ELSE req

\* vector_service.search_products(query, limit): the best `limit` hits.
search_products(hits, limit) ==
    {h \in hits : Cardinality({g \in hits : g < h}) < limit}

\* search_limit = min(max_results * 2, 100), max_results defaulting to 50.
search_limit(max_results) ==
    LET m == IF max_results # 0 THEN max_results ELSE 50
    IN IF m * 2 < 100 THEN m * 2 ELSE 100

\* list[:n]
FirstN(list, n) == SubSeq(list, 1, IF Len(list) < n THEN Len(list) ELSE n)

\* ------------------------------------------------- generate_smart_suggestions
base_suggestions ==
    << "Is this available in other colors?",
       "What sizes are available?",
       "Show me the images",
       "Tell me about the material",
       "Is there any discount on this?",
       "How much does this cost?",
       "Is this in stock?",
       "Show me similar products",
       "What options are available?" >>

\* The question keywords each suggestion contains, in lower case.
Mentions(suggestion) ==
    CASE suggestion = "Is this available in other colors?" -> {"available", "color"}
      [] suggestion = "What sizes are available?" -> {"size", "available"}
      [] suggestion = "Show me the images" -> {"image"}
      [] suggestion = "Tell me about the material" -> {"material"}
      [] suggestion = "Is there any discount on this?" -> {"discount"}
      [] suggestion = "How much does this cost?" -> {"cost"}
      [] suggestion = "Is this in stock?" -> {"stock"}
      [] suggestion = "What options are available?" -> {"option", "available"}
      [] OTHER -> {}

\* The question type of a text that contains the given keywords.
question_type_of(words) ==
    IF words \cap {"image", "photo", "picture", "look"} # {} THEN "images"
    ELSE IF "color" \in words THEN "color"
    ELSE IF "size" \in words THEN "size"
    ELSE IF "material" \in words THEN "material"
    ELSE IF "discount" \in words THEN "discount"
    ELSE IF words \cap {"price", "cost"} # {} THEN "price"
    ELSE IF words \cap {"stock", "available"} # {} THEN "availability"
    ELSE IF "option" \in words THEN "options"
    ELSE "general"

\* The word whose presence drops a suggestion after a question of the type.
SkipWord(last_question_type) ==
    CASE last_question_type = "color" -> "color"
      [] last_question_type = "size" -> "size"
      [] last_question_type = "images" -> "image"
      [] last_question_type = "material" -> "material"
      [] last_question_type = "discount" -> "discount"
      [] last_question_type = "price" -> "cost"
      [] last_question_type = "availability" -> "stock"
      [] last_question_type = "options" -> "option"
      [] OTHER -> NoneStr

generate_smart_suggestions(last_question_type) ==
    FirstN(SelectSeq(base_suggestions,
                     LAMBDA suggestion :
                         SkipWord(last_question_type) \notin Mentions(suggestion)),
           4)

\* ----------------------------------------- detect_product_specific_question
\* recent_products[position - 1] when the position is within the list.
PositionLookup(position, recent_products) ==
    IF position # 0 /\ Len(recent_products) >= position
    THEN recent_products[position]
    ELSE NoProduct

\* The loop over position_patterns: the first pattern whose position is
\* within recent_products sets the target and ends the loop.
RECURSIVE PositionTarget(_, _)
PositionTarget(positions, recent_products) ==
    IF positions = << >> THEN NoProduct
    ELSE LET t == PositionLookup(Head(positions), recent_products)
         IN IF t # NoProduct THEN t
            ELSE PositionTarget(Tail(positions), recent_products)

\* Faulty variant: the selected product is consulted before the position.
ResolveTarget_SelectedFirst(positions, context_product, recent_products, selected_product) ==
    LET byPosition == PositionTarget(positions, recent_products)
    IN IF selected_product # NoProduct THEN selected_product
       ELSE IF byPosition # NoProduct THEN byPosition
       ELSE context_product

\* Faulty variant: the context product is consulted before the selected one.
ResolveTarget_ContextFirst(positions, context_product, recent_products, selected_product) ==
    LET byPosition == PositionTarget(positions, recent_products)
    IN IF byPosition # NoProduct THEN byPosition
       ELSE IF context_product # NoProduct THEN context_product
       ELSE selected_product

\* Positional reference, then selected product, then context product.
ResolveTarget(positions, context_product, recent_products, selected_product) ==
    LET byPosition == PositionTarget(positions, recent_products)
    IN IF byPosition # NoProduct THEN byPosition
       ELSE IF selected_product # NoProduct THEN selected_product
       ELSE context_product

detect_product_specific_question(req, context_product, recent_products, selected_product) ==
    LET target_product == ResolveTarget(req.positions, context_product,
                                        recent_products, selected_product)
        is_product_question == req.qpat \/ (target_product # NoProduct /\ req.kw)
    IN [ is_product_question |-> is_product_question,
         question_type       |-> IF req.qpat THEN req.qtype ELSE "general",
         should_use_context  |-> is_product_question /\ target_product # NoProduct,
         target_product      |-> target_product ]

\* product_position_reference of parse_user_preferences: the first pattern
\* that matches decides, whether its position is usable or not.
product_position_reference(req) ==
    IF req.positions = << >> THEN 0 ELSE Head(req.positions)


\* ------------------------------------------------------------ chat_endpoint
\* The selected_product_id of the request: the id is always stored, the
\* selected and the context product only when the catalog has the product.
ApplySelection(s, req) ==
    IF req.selected_product_id = NoProduct THEN s
    ELSE LET new_context_product == find_product_by_id(req.selected_product_id)
             s1 == [s EXCEPT !.selected_product_id = req.selected_product_id]
         IN IF new_context_product # NoProduct
            THEN [s1 EXCEPT !.context_product = new_context_product,
                            !.selected_product = new_context_product]
            ELSE s1

\* The user message is appended, then the history is cut to its last 10.
AppendUser(s) ==
    [s EXCEPT !.conversation_history =
                  LastN(Append(s.conversation_history, "user"), HistoryLimit)]

\* The bot message is appended at the end of the turn.
AppendAssistant(s) ==
    [s EXCEPT !.conversation_history =
                  Append(s.conversation_history, "assistant")]

\* The reply of the turn starts from the handler's initial local values.
InitialResponse(s, req) ==
    [DefaultResponse EXCEPT !.intent = req.intent,
                            !.confidence = req.confidence,
                            !.current_page = req.page_number,
                            !.context_product = s.context_product]

\* Faulty variant: the positions are counted from 0.
NumberedProducts_FromZero(exact_matches) ==
    [i \in 0..(Len(exact_matches) - 1) |-> exact_matches[i + 1]]

\* numbered_products: position i of the page -> product.
NumberedProducts(exact_matches) ==
    [i \in 1..Len(exact_matches) |-> exact_matches[i]]

\* Faulty variant: the answered product also replaces the products shown.
ProductQuestionBranch_Renumbering(s, req, an) ==
    [ s |-> [s EXCEPT !.context_product = an.target_product,
                      !.numbered_products = NumberedProducts(<< an.target_product >>),
                      !.recent_search_products = << an.target_product >>],
      r |-> [InitialResponse(s, req) EXCEPT
                !.kind = "product_answer",
                !.context_product = an.target_product,
                !.answered_product = an.target_product,
                !.suggested_questions =
                    generate_smart_suggestions(an.question_type)] ]

\* Product-specific question about the resolved target (should_use_context).
ProductQuestionBranch(s, req, an) ==
    LET target_product == an.target_product
        r0 == InitialResponse(s, req)
    IN IF target_product # NoProduct
       THEN [ s |-> [s EXCEPT !.context_product = target_product],
              r |-> [r0 EXCEPT !.kind = "product_answer",
                               !.context_product = target_product,
                               !.answered_product = target_product,
                               !.suggested_questions =
                                   generate_smart_suggestions(an.question_type)] ]
       ELSE [ s |-> s,
              r |-> [r0 EXCEPT !.kind = "clarify",
                               !.suggested_questions =
                                   << "Show me some products",
                                      "Tell me about the first product",
                                      "What products do you have?" >>] ]

\* search_query: the classifier's keywords, else the raw message.
SearchQuery(req) ==
    IF req.keywords # NoneStr THEN req.keywords ELSE req.message

\* similarity_query: title, product type and vendor of the reference product.
similarity_query(reference_product) ==
    << "title", "product_type", "vendor", reference_product >>

\* Price of a catalog product.
Price(p) == p * 10

\* apply_product_filters with a price ceiling (0: no price filter).
apply_product_filters(products, price_max) ==
    IF price_max = 0 THEN products
    ELSE SelectSeq(products, LAMBDA p : Price(p) <= price_max)

\* is_pagination_request: the query is the cached one and page_number > 1.
IsPaginationRequest(s, req) ==
    /\ s.cached_search_query # NoneStr
    /\ s.cached_search_results # << >>
    /\ Lower(SearchQuery(req)) = Lower(s.cached_search_query)
    /\ req.page_number > 1

\* "I couldn't find any products": the else of
\* `if not is_pagination_request and product_results`.
NoResultsBranch(s, req, calls) ==
    LET suggestions == FirstN(SortedSeq(search_products(req.popular_hits, 10)), 5)
    IN [ s |-> s,
         r |-> [InitialResponse(s, req) EXCEPT
                   !.kind = "no_products",
                   !.suggestions = suggestions,
                   !.show_suggestions_slider = Len(suggestions) > 0,
                   !.suggested_questions =
                       << "Show me shirts", "Find me a dress", "Show me shoes",
                          "What's on sale?", "Show me popular products" >>,
                   !.search_calls = Append(calls, "popular products")] ]

\* Faulty variant: the page is cut from the unfiltered list.
ResultsBranch_PageOfAll(s, req, calls) ==
    LET all_products ==
            SortedSeq(search_products(req.hits, search_limit(req.max_results)))
        filtered_products == apply_product_filters(all_products, req.price_max)
        exact_matches == Slice(all_products, (req.page_number - 1) * PageSize,
                               req.page_number * PageSize)
    IN [ s |-> [s EXCEPT !.cached_search_results = filtered_products,
                         !.cached_search_query = SearchQuery(req),
                         !.numbered_products = NumberedProducts(exact_matches),
                         !.recent_search_products = exact_matches],
         r |-> [InitialResponse(s, req) EXCEPT
                   !.kind = "all_matches",
                   !.exact_matches = exact_matches,
                   !.show_exact_slider = TRUE,
                   !.total_exact_matches = Len(filtered_products),
                   !.search_calls = Append(calls, "related")] ]

\* The results of a fresh search: filter, cache, paginate, renumber, then
\* search for suggestions and word the reply.  The query for the products'
\* rows (and the formatting of the rows) can raise before anything is stored.
\* The wording for a single match reads exact_matches[0] and raises when the
\* page is empty, after the record has been updated.
ResultsBranch(s, req, calls) ==
    LET search_query == SearchQuery(req)
        product_results == search_products(req.hits, search_limit(req.max_results))
        all_products == SortedSeq(product_results)
        filtered_products == apply_product_filters(all_products, req.price_max)
        total_exact_matches == Len(filtered_products)
        start_idx == (req.page_number - 1) * PageSize
        end_idx == start_idx + PageSize
        exact_matches == Slice(filtered_products, start_idx, end_idx)
        has_more == end_idx < Len(filtered_products)
        exact_match_ids == {exact_matches[i] : i \in DOMAIN exact_matches}
        suggestions ==
            FirstN(apply_product_filters(
                       SortedSeq(search_products(req.related_hits, 20) \ exact_match_ids),
                       req.price_max), 5)
        context_product == IF exact_matches # << >> THEN exact_matches[1]
                           ELSE s.context_product
        s1 == [s EXCEPT !.cached_search_results = filtered_products,
                        !.cached_search_query = search_query,
                        !.numbered_products = NumberedProducts(exact_matches),
                        !.recent_search_products = exact_matches,
                        !.context_product = context_product]
        r0 == [InitialResponse(s, req) EXCEPT
                  !.total_exact_matches = total_exact_matches,
                  !.total_suggestions = Len(suggestions),
                  !.context_product = context_product,
                  !.search_calls = Append(calls, "related")]
        r1 == IF req.max_results = 1
              THEN IF exact_matches # << >>
                   THEN [r0 EXCEPT !.kind = "the_product",
                                   !.show_exact_slider = TRUE,
                                   !.suggested_questions =
                                       << "What colors are available?",
                                          "What sizes does this come in?",
                                          "Show me the images",
                                          "What's the price?",
                                          "Is there any discount?" >>,
                                   !.has_more_exact = has_more]
                   ELSE [r0 EXCEPT !.kind = "no_exact_match",
                                   !.show_suggestions_slider = Len(suggestions) > 0,
                                   !.has_more_exact = has_more]
              ELSE IF total_exact_matches = 0
              THEN [r0 EXCEPT !.kind = "no_exact_matches",
                              !.show_suggestions_slider = Len(suggestions) > 0,
                              !.has_more_exact = has_more]
              ELSE IF total_exact_matches = 1
              THEN IF exact_matches = << >>
                   THEN [r0 EXCEPT !.kind = "raised", !.raised = "IndexError"]
                   ELSE [r0 EXCEPT !.kind = "one_match",
                                   !.show_exact_slider = TRUE,
                                   !.show_suggestions_slider = suggestions # << >>,
                                   !.has_more_exact = has_more]
              ELSE [r0 EXCEPT !.kind = IF Len(exact_matches) < total_exact_matches
                                       THEN "first_matches" ELSE "all_matches",
                              !.show_exact_slider = TRUE,
                              !.show_suggestions_slider = suggestions # << >>,
                              !.has_more_exact =
                                  has_more \/ Len(exact_matches) < total_exact_matches]
    IN IF req.fault = "product_query"
       THEN [ s |-> s,
              r |-> [InitialResponse(s, req) EXCEPT !.kind = "raised",
                                                    !.raised = "product_query",
                                                    !.search_calls = calls] ]
       ELSE IF r1.kind = "raised"
       THEN [ s |-> s1, r |-> r1 ]
       ELSE [ s |-> s1,
              r |-> [r1 EXCEPT !.exact_matches =
                         IF r1.show_exact_slider THEN exact_matches ELSE << >>,
                               !.suggestions =
                         IF r1.show_suggestions_slider THEN suggestions ELSE << >>] ]

\* New product search: a pagination request takes the cached list and
\* issues no search for the query; every other request searches.
NewSearchBranch(s, req) ==
    IF IsPaginationRequest(s, req)
    THEN NoResultsBranch(s, req, << >>)
    ELSE IF req.hits # {}
         THEN ResultsBranch(s, req, << SearchQuery(req) >>)
         ELSE NoResultsBranch(s, req, << SearchQuery(req) >>)


\* PRODUCT_SEARCH: "more like #N", then a position reference, then a search.
ProductSearchBranch(s, req) ==
    LET r0 == InitialResponse(s, req)
        position == product_position_reference(req)
    IN IF req.similar # 0
       THEN [ s |-> s,
              r |-> [r0 EXCEPT !.kind =
                        IF req.similar \in DOMAIN s.numbered_products
                        THEN "similar_to" ELSE "similar_not_found"] ]
       ELSE IF position # 0
       THEN IF Len(s.recent_search_products) >= position
            THEN LET target_product == s.recent_search_products[position]
                 IN [ s |-> [s EXCEPT !.context_product = target_product],
                      r |-> [r0 EXCEPT !.kind = "product_answer",
                                       !.context_product = target_product,
                                       !.answered_product = target_product,
                                       !.exact_matches = << target_product >>,
                                       !.show_exact_slider = TRUE,
                                       !.suggested_questions =
                                           << "What colors are available?",
                                              "What sizes does this come in?",
                                              "What's the price?",
                                              "Is there any discount?" >>] ]
            ELSE [ s |-> s,
                   r |-> [r0 EXCEPT !.kind = "position_not_found"] ]
       ELSE NewSearchBranch(s, req)

\* The order matching (order_number, email), as a list of at most one order.
FindOrder(order_number_int, email) ==
    IF [order_number |-> order_number_int, email |-> email] \in OrdersDB
    THEN << order_number_int >> ELSE << >>

\* extracted_info.get("customer_email") or chat_message.email
FirstEmail(req) ==
    IF req.cl_email # NoneStr THEN req.cl_email ELSE req.email

\* The pending slots after the handler has saved what this turn supplied.
SavePending(s, email, order_number) ==
    [s EXCEPT !.pending_order_email =
                  IF email # NoneStr THEN email ELSE @,
              !.pending_order_number =
                  IF order_number # NoneStr THEN order_number ELSE @]

\* Faulty variant: the slots are cleared only when no order was found.
ClearPending_OnlyNotFound(s, orders) ==
    IF orders = << >>
    THEN [s EXCEPT !.pending_order_email = NoneStr,
                   !.pending_order_number = NoneStr]
    ELSE s

\* Both slots are cleared once the order has been looked up.
ClearPending(s, orders) ==
    [s EXCEPT !.pending_order_email = NoneStr,
              !.pending_order_number = NoneStr]

\* The order number the turn uses: the classifier's, else the saved one,
\* else the one the fallback patterns extract.
MergeOrderNumber(cl_order_number, saved_order_number, rx_order_number) ==
    IF cl_order_number # NoneStr THEN cl_order_number
    ELSE IF saved_order_number # NoneStr THEN saved_order_number
    ELSE rx_order_number

\* The email the turn uses: the classifier's, else the email of the
\* request, else the saved one, else the one the fallback pattern extracts.
MergeEmail(cl_email, request_email, saved_email, rx_email) ==
    LET email == FirstEmail([cl_email |-> cl_email, email |-> request_email])
    IN IF email # NoneStr THEN email
       ELSE IF saved_email # NoneStr THEN saved_email
       ELSE rx_email

\* Faulty variant: the invalid number clears the saved slots.
InvalidNumberBranch_Clearing(s1, r0) ==
    [ s |-> [s1 EXCEPT !.pending_order_email = NoneStr,
                       !.pending_order_number = NoneStr],
      r |-> [r0 EXCEPT !.kind = "invalid_order_number",
                       !.suggested_questions =
                           << "My order number is 1234", "Let me try again",
                              "Show me products instead" >>] ]

\* A non-numeric order number: reply only, the saved slots stay.
InvalidNumberBranch(s1, r0) ==
    [ s |-> s1,
      r |-> [r0 EXCEPT !.kind = "invalid_order_number",
                       !.suggested_questions =
                           << "My order number is 1234", "Let me try again",
                              "Show me products instead" >>] ]

\* ORDER_INQUIRY: save and merge the slots, prompt for what is missing,
\* else look the order up.
OrderInquiryBranch(s, req) ==
    LET s1 == SavePending(s, FirstEmail(req), req.cl_order_number)
        email == MergeEmail(req.cl_email, req.email,
                            s1.pending_order_email, req.rx_email)
        order_number == MergeOrderNumber(req.cl_order_number,
                                         s1.pending_order_number,
                                         req.rx_order_number)
        r0 == [InitialResponse(s, req) EXCEPT !.order_number = order_number,
                                              !.order_email = email]
    IN IF order_number = NoneStr /\ email = NoneStr
       THEN [ s |-> s1,
              r |-> [r0 EXCEPT !.kind = "ask_both",
                               !.suggested_questions =
                                   << "My order number is 1234",
                                      "My email is user@example.com",
                                      "Order 1234, email user@example.com" >>] ]
       ELSE IF order_number = NoneStr
       THEN [ s |-> s1,
              r |-> [r0 EXCEPT !.kind = "ask_order_number",
                               !.suggested_questions =
                                   << "My order number is 1234", "Order 1234",
                                      "It's order 1234" >>] ]
       ELSE IF email = NoneStr
       THEN [ s |-> s1,
              r |-> [r0 EXCEPT !.kind = "ask_email",
                               !.suggested_questions =
                                   << "My email is user@example.com",
                                      "user@example.com",
                                      "It's user@example.com" >>] ]
       ELSE IF ~IsNumeric(order_number)
       THEN InvalidNumberBranch(s1, r0)
       ELSE IF req.fault = "order_query"
       THEN [ s |-> s1,
              r |-> [r0 EXCEPT !.kind = "raised", !.raised = "order_query"] ]
       ELSE LET orders == FindOrder(IntValue[order_number], email)
                lookup == << << order_number, email >> >>
            IN [ s |-> ClearPending(s1, orders),
                 r |-> [r0 EXCEPT !.kind = IF orders = << >>
                                           THEN "order_not_found"
                                           ELSE "order_details",
                                  !.orders = orders,
                                  !.order_lookup = lookup,
                                  !.suggested_questions =
                                      IF orders = << >>
                                      THEN << "Let me try a different order number",
                                              "Check order with different email",
                                              "Show me products instead" >>
                                      ELSE << "Track this order",
                                              "When will it arrive?",
                                              "Show me similar products" >>] ]

\* GENERAL_CHAT, HELP and anything else.
GeneralBranch(s, req) ==
    [ s |-> s,
      r |-> [InitialResponse(s, req) EXCEPT
                !.kind = "general",
                !.suggested_questions =
                    << "Show me popular products",
                       "I'm looking for a gift",
                       "What's new in your store?",
                       "Can you help me find something specific?" >>] ]

\* Faulty variant: the confidence is left at its default.
ErrorResponse_DefaultConfidence(raised) ==
    [DefaultResponse EXCEPT !.kind = "error",
                            !.intent = "error",
                            !.raised = raised]

\* The reply of the outer `except Exception`: generic text, intent "error".
ErrorResponse(raised) ==
    [DefaultResponse EXCEPT !.kind = "error",
                            !.intent = "error",
                            !.confidence = 0,
                            !.raised = raised]

\* The end of a turn: a branch that raised is answered by the outer
\* except and leaves s as it was when it raised; otherwise the reply is
\* appended to the history.
EndTurn(b, an) ==
    IF b.r.kind = "raised"
    THEN [ s |-> b.s,
           r |-> [ErrorResponse(b.r.raised) EXCEPT
                     !.search_calls = b.r.search_calls],
           an |-> an ]
    ELSE [ s |-> AppendAssistant(b.s), r |-> b.r, an |-> an ]

\* The dispatch of chat_endpoint: the resolver's short-circuit first, then
\* the branch of the classified intent.
Dispatch(s1, req, an) ==
    EndTurn(IF an.is_product_question /\ an.should_use_context
            THEN ProductQuestionBranch(s1, req, an)
            ELSE IF req.intent = "PRODUCT_SEARCH"
            THEN ProductSearchBranch(s1, req)
            ELSE IF req.intent = "ORDER_INQUIRY"
            THEN OrderInquiryBranch(s1, req)
            ELSE GeneralBranch(s1, req),
            an)

\* The turn on the record s1 that already holds the user's message.
Resolve(s1, req) ==
    Dispatch(s1, req,
             detect_product_specific_question(req, s1.context_product,
                 s1.recent_search_products, s1.selected_product))

\* One turn of chat_endpoint on the session record s, from the selection
\* to the reply.
Classified(s, req) == Resolve(AppendUser(ApplySelection(s, req)), req)

Turn(s, chat_message) ==
    Classified(s, analyze_user_intent_with_context(chat_message))

\* The end of chat_endpoint: the record is stored under the session id the
\* persistence block left, and the assistant turn is persisted unless the
\* turn raised.
Store(ctx, p, t, chat_message) ==
    [ ctx |-> PutSession(ctx, p.session_id, t.s),
      db  |-> IF t.r.kind = "error" THEN p.db
              ELSE PersistAssistantTurn(p.db, p.session_db, chat_message),
      r   |-> t.r,
      an  |-> t.an ]

\* chat_endpoint after the user-turn persistence block p.
Serve(ctx, p, chat_message) ==
    Store(ctx, p, Turn(SessionOf(ctx, p.session_id), chat_message), chat_message)

\* chat_endpoint: the whole handler on the session store and the
\* chat_sessions table.  Building the services and the email check come
\* first; both raise inside the handler's try.
chat_endpoint(ctx, db, chat_message) ==
    IF chat_message.fault = "setup"
    THEN [ ctx |-> ctx, db |-> db, r |-> ErrorResponse("setup"), an |-> NoAnalysis ]
    ELSE IF Strip(chat_message.email) = NoneStr
    THEN [ ctx |-> ctx, db |-> db,
           r |-> ErrorResponse("HTTPException"), an |-> NoAnalysis ]
    ELSE Serve(ctx, PersistUserTurn(ctx, db, chat_message), chat_message)


\* --------------------------------------------------------------- actions
\* One request handled from its arrival to its reply.
Handle(req) ==
    \E t \in {chat_endpoint(session_context, chat_sessions, req)} :
       /\ NeedsUuid(chat_sessions, req) =>
              FreshUuids(session_context, chat_sessions) # {}
       /\ session_context' = t.ctx
       /\ chat_sessions' = t.db
       /\ request' = analyze_user_intent_with_context(req)
       /\ analysis' = t.an
       /\ response' = t.r
       /\ UNCHANGED << conversion, tasks, extraction >>

\* A message that asks about a product: a question pattern, a product
\* keyword or position references.
QuestionTurn(PositionSeqs, Intents) ==
    \E ps \in PositionSeqs, qp \in BOOLEAN, k \in BOOLEAN, it \in Intents :
        /\ qp \/ k \/ ps # << >>
        /\ Handle([DefaultRequest EXCEPT
                      !.positions = ps,
                      !.qpat = qp,
                      !.kw = k,
                      !.qtype = IF qp /\ k THEN "color" ELSE "general",
                      !.intent = it,
                      !.message = "question",
                      !.hits = 1..3])

\* A request that carries the id of the product the user clicked.
SelectTurn(Ids) ==
    \E sel \in Ids, qp \in BOOLEAN :
        /\ Handle([DefaultRequest EXCEPT
                   !.selected_product_id = sel,
                   !.qpat = qp,
                   !.message = "selected"])

\* A message the classifier takes for a product search.
SearchTurn(Keywords, Pages, Hits, PriceMaxes, MaxResults) ==
    \E kws \in Keywords, pg \in Pages, h \in Hits,
       pm \in PriceMaxes, mr \in MaxResults :
        /\ Handle([DefaultRequest EXCEPT
                   !.intent = "PRODUCT_SEARCH",
                   !.keywords = kws,
                   !.message = "show me",
                   !.page_number = pg,
                   !.price_max = pm,
                   !.max_results = mr,
                   !.hits = h])

\* "more like #N".
SimilarTurn(Numbers) ==
    \E n \in Numbers :
        /\ Handle([DefaultRequest EXCEPT
                   !.intent = "PRODUCT_SEARCH",
                   !.message = "more like",
                   !.similar = n,
                   !.hits = 1..3])

\* A message the classifier takes for an order inquiry.
OrderTurn(ClNumbers, ClEmails, RxNumbers, RxEmails) ==
    \E cn \in ClNumbers, ce \in ClEmails, rn \in RxNumbers, re \in RxEmails :
        /\ Handle([DefaultRequest EXCEPT
                   !.intent = "ORDER_INQUIRY",
                   !.message = "my order",
                   !.cl_order_number = cn,
                   !.cl_email = ce,
                   !.rx_order_number = rn,
                   !.rx_email = re])

\* Greetings, help requests and other general conversation.
GeneralTurn ==
    \E it \in {"GENERAL_CHAT", "HELP"} :
        /\ Handle([DefaultRequest EXCEPT !.intent = it])

\* POST /clear-context: the session's record is deleted.
ClearContext(SessionIdsSent) ==
    \E sid \in SessionIdsSent :
        /\ session_context' = DelSession(session_context, sid)
        /\ request' = [DefaultRequest EXCEPT !.session_id = sid,
                                             !.message = "clear-context"]
        /\ analysis' = NoAnalysis
        /\ response' = [DefaultResponse EXCEPT !.kind = "context_cleared"]
        /\ UNCHANGED << chat_sessions, conversion, tasks, extraction >>

\* A product question of a given type about the product in focus.
TypedQuestionTurn(Types) ==
    \E qt \in Types :
        /\ Handle([DefaultRequest EXCEPT
                   !.qpat = TRUE,
                   !.kw = TRUE,
                   !.qtype = qt,
                   !.intent = "PRODUCT_SEARCH",
                   !.message = "question"])

\* The arguments of safe_float_convert: None, a text, an integer.
NoneValue == [type |-> "None", chars |-> << >>, n |-> 0]
Text(chars) == [type |-> "str", chars |-> chars, n |-> 0]
IntegerValue(n) == [type |-> "int", chars |-> << >>, n |-> n]

\* A turn during which something raises: building the services ("setup"),
\* the products query of a search, the order query, or the check of an
\* email that is missing or blank.
FaultyTurn(Faults, Emails) ==
    \E f \in Faults, e \in Emails, it \in {"PRODUCT_SEARCH", "ORDER_INQUIRY"} :
        /\ f # "none" \/ Strip(e) = NoneStr
        /\ Handle([DefaultRequest EXCEPT
                   !.fault = f,
                   !.email = e,
                   !.intent = it,
                   !.keywords = "shirt",
                   !.message = "faulty",
                   !.cl_order_number = "1234",
                   !.hits = 1..3])

\* A turn whose classifier call fails or answers with something that is
\* not JSON.
ClassifierFailTurn(Messages, Hits) ==
    \E m \in Messages, h \in Hits, qp \in BOOLEAN :
        /\ Handle([DefaultRequest EXCEPT
                   !.classifier_failed = TRUE,
                   !.message = m,
                   !.qpat = qp,
                   !.rx_order_number = IF m = "order 1234" THEN "1234" ELSE NoneStr,
                   !.hits = h])

\* A search or a product question sent with or without a session id, for
\* each way the persistence blocks can end.
SessionTurn(SessionIdsSent, Emails, Outcomes) ==
    \E sid \in SessionIdsSent, e \in Emails, p \in Outcomes,
       pa \in BOOLEAN, search \in BOOLEAN :
        /\ Handle([DefaultRequest EXCEPT
                   !.session_id = sid,
                   !.email = e,
                   !.persist = p,
                   !.persist_assistant = pa,
                   !.intent = "PRODUCT_SEARCH",
                   !.keywords = IF search THEN "shirt" ELSE NoneStr,
                   !.message = IF search THEN "show me" ELSE "question",
                   !.qpat = ~search,
                   !.kw = ~search,
                   !.qtype = IF search THEN "general" ELSE "color",
                   !.hits = IF search THEN 1..3 ELSE {}])

\* No call of safe_float_convert has been made.
NoConversion == [ value |-> NoneValue, done |-> FALSE, result |-> Float(0, 1) ]

\* safe_float_convert(value) is called and returns.
Convert ==
    /\ ~conversion.done
    /\ conversion' = [conversion EXCEPT
                          !.done = TRUE,
                          !.result = safe_float_convert(conversion.value)]
    /\ UNCHANGED << session_context, chat_sessions, request, analysis, response,
                    tasks, extraction >>

\* ------------------------------------------------ extract_product_options
\* A product is its options, each a name and a list of values, and its
\* variants, each with option1..option3 and an inventory quantity.  Option
\* values are numbered in their sorted order; 0 stands for None.
NoValue == 0

\* name.strip()
StripName(name) == IF name = " " THEN NoneStr ELSE name

\* option_names: the stripped names in the order of the options.
OptionNames(options) == [i \in DOMAIN options |-> StripName(options[i].name)]

\* The values the variants carry for the option called name.
VariantValues(option_names, variants, name) ==
    { variants[v].option_values[idx] :
        v \in DOMAIN variants,
        idx \in {i \in DOMAIN option_names : i <= 3 /\ option_names[i] = name} }
    \ {NoValue}

\* The values the options list for the option called name.
OptionValues(options, name) ==
    UNION { {options[i].values[j] : j \in DOMAIN options[i].values} :
            i \in {k \in DOMAIN options : StripName(options[k].name) = name} }
    \ {NoValue}

\* attributes of a variant: option name -> the variant's value for it, the
\* later option winning when two options share a name.
Attributes(option_names, variant) ==
    LET used == {i \in DOMAIN option_names :
                    /\ i <= 3
                    /\ option_names[i] # NoneStr
                    /\ variant.option_values[i] # NoValue}
    IN [ name \in {option_names[i] : i \in used} |->
           variant.option_values[CHOOSE i \in used :
               /\ option_names[i] = name
               /\ \A j \in used : option_names[j] = name => j <= i] ]

\* extract_product_options: the dictionary the function returns.
extract_product_options(product) ==
    LET options == product.options
        variants == product.variants
        option_names == OptionNames(options)
        names == {option_names[i] : i \in DOMAIN option_names} \ {NoneStr}
    IN [ options |->
             [ name \in names |->
                 SortedSeq(OptionValues(options, name)
                           \cup VariantValues(option_names, variants, name)) ],
         stock_status |->
             [ v \in DOMAIN variants |->
                 [ inventory_quantity |-> variants[v].inventory_quantity,
                   available |-> variants[v].inventory_quantity > 0,
                   attributes |-> Attributes(option_names, variants[v]) ] ],
         option_names |-> option_names ]

NoExtraction ==
    [ product |-> [options |-> << >>, variants |-> << >>],
      done |-> FALSE,
      result |-> [options |-> << >>, stock_status |-> << >>,
                  option_names |-> << >>] ]

\* A call of extract_product_options.
Extract ==
    /\ ~extraction.done
    /\ extraction' = [extraction EXCEPT
                          !.done = TRUE,
                          !.result = extract_product_options(extraction.product)]
    /\ UNCHANGED << session_context, chat_sessions, request, analysis, response,
                    conversion, tasks >>

\* ------------------------------------------------------------ event loop
\* chat_endpoint is a coroutine (async def) whose body holds no await: once
\* the event loop starts a call it runs to its return before any other
\* call starts.  A call is "pending" from its arrival until the loop
\* starts it, "running" from its first statement to its return, and
\* "done" afterwards.  begun_ctx and begun_db keep what the call found
\* when it started.
NoTask ==
    [ pc |-> "idle", req |-> DefaultRequest, session_id |-> NoneStr,
      session_db |-> NoneStr, overlapped |-> FALSE,
      begun_ctx |-> << >>, begun_db |-> << >> ]

NoTasks == [c \in 1..MaxTurns |-> NoTask]

\* The calls at a given position.
TasksAt(tks, pc) == {c \in DOMAIN tks : tks[c].pc = pc}

\* A handler run in a thread pool starts whenever a thread is free.
EventLoopFree_ThreadPool(tks) == TasksAt(tks, "pending") # {}

\* The event loop starts a call only when no call is running.
EventLoopFree(tks) == TasksAt(tks, "running") = {}

\* A request is accepted: body and dependencies are read, the call waits
\* for the event loop.
Arrive(Requests) ==
    \E c \in TasksAt(tasks, "idle"), req \in Requests :
        /\ \A d \in TasksAt(tasks, "idle") : c <= d
        /\ tasks' = [tasks EXCEPT ![c] =
                        [NoTask EXCEPT
                            !.pc = "pending",
                            !.req = req,
                            !.overlapped = TasksAt(tasks, "pending")
                                           \cup TasksAt(tasks, "running") # {}]]
        /\ UNCHANGED << session_context, chat_sessions, request, analysis,
                        response, conversion, extraction >>

\* The call starts: the user turn is persisted, the session record is
\* created if missing, the selection is applied and the user message is
\* appended to the history.
BeginTurn ==
    \E c \in TasksAt(tasks, "pending") :
        /\ EventLoopFree(tasks)
        /\ NeedsUuid(chat_sessions, tasks[c].req) =>
               FreshUuids(session_context, chat_sessions) # {}
        /\ \E p \in {PersistUserTurn(session_context, chat_sessions, tasks[c].req)} :
            /\ session_context' =
                   PutSession(session_context, p.session_id,
                       AppendUser(ApplySelection(
                           SessionOf(session_context, p.session_id),
                           analyze_user_intent_with_context(tasks[c].req))))
            /\ chat_sessions' = p.db
            /\ tasks' = [tasks EXCEPT ![c] =
                            [@ EXCEPT !.pc = "running",
                                      !.session_id = p.session_id,
                                      !.session_db = p.session_db,
                                      !.begun_ctx = session_context,
                                      !.begun_db = chat_sessions]]
        /\ UNCHANGED << request, analysis, response, conversion, extraction >>

\* The call goes on from the resolver to its return: the branch of the
\* turn, the assistant message, the reply.
FinishTurn ==
    \E c \in TasksAt(tasks, "running") :
        \E t \in {Store(session_context,
                        [ session_id |-> tasks[c].session_id,
                          db |-> chat_sessions,
                          session_db |-> tasks[c].session_db ],
                        Resolve(SessionOf(session_context, tasks[c].session_id),
                                analyze_user_intent_with_context(tasks[c].req)),
                        tasks[c].req)} :
            /\ session_context' = t.ctx
            /\ chat_sessions' = t.db
            /\ request' = analyze_user_intent_with_context(tasks[c].req)
            /\ analysis' = t.an
            /\ response' = t.r
            /\ tasks' = [tasks EXCEPT ![c].pc = "done"]
            /\ UNCHANGED << conversion, extraction >>

Init ==
    /\ session_context = << >>
    /\ chat_sessions = << >>
    /\ request = DefaultRequest
    /\ analysis = NoAnalysis
    /\ response = DefaultResponse
    /\ conversion = NoConversion
    /\ tasks = NoTasks
    /\ extraction = NoExtraction

\* ---------------------------------------------------------- specifications
\* A position beyond any page.
BeyondPage == PageSize + 1

\* The question types of detect_product_specific_question.
QuestionTypes ==
    {"images", "color", "size", "material", "discount", "price",
     "availability", "options", "general"}

\* Every kind of turn, each with a few inputs.
Next ==
    \/ SearchTurn({"shirt"}, {1}, {{}, 1..3}, {0}, {0, 1})
    \/ QuestionTurn({<< >>, << 1 >>}, {"PRODUCT_SEARCH"})
    \/ TypedQuestionTurn(QuestionTypes)
    \/ SelectTurn({2})
    \/ SimilarTurn({1})
    \/ OrderTurn({NoneStr, "1234"}, {NoneStr, "a@b.com"}, {NoneStr}, {NoneStr})
    \/ GeneralTurn
    \/ ClearContext({DefaultRequest.session_id})

Spec == Init /\ [][Next]_vars

\* Searches that fill the result page, then questions and selections that
\* refer to the products shown.
NextResolve ==
    \/ SearchTurn({"shirt"}, {1}, {{}, 1..3}, {0}, {0})
    \/ QuestionTurn({<< >>, << 0 >>, << 1 >>, << 2 >>, << BeyondPage >>,
                     << BeyondPage, 1 >>, << 0, 2 >>, << 1, 2 >>},
                    {"PRODUCT_SEARCH", "GENERAL_CHAT"})
    \/ SelectTurn({2, UnknownId})
    \/ GeneralTurn

SpecResolve == Init /\ [][NextResolve]_vars

\* Searches over several queries, pages and result sets.
NextSearch ==
    \/ SearchTurn({"shirt", "Shirt", "dress"}, 1..MaxPage,
                  {{}, 1..3, Catalog}, {0, 30}, {0, 1})
    \/ SimilarTurn({1, BeyondPage})
    \/ GeneralTurn

SpecSearch == Init /\ [][NextSearch]_vars

\* Order inquiries: every combination of what the classifier and the
\* fallback patterns extract.
NextOrder ==
    \/ OrderTurn({NoneStr, "1234", "12AB"}, {NoneStr, "a@b.com"},
                 {NoneStr, "5678"}, {NoneStr, "c@d.com"})
    \/ GeneralTurn

SpecOrder == Init /\ [][NextOrder]_vars

\* The entries of all conversation histories.
HistoryEntries ==
    LET RECURSIVE Sum(_)
        Sum(S) == IF S = {} THEN 0
                  ELSE LET sid == CHOOSE x \in S : TRUE
                       IN Len(session_context[sid].conversation_history)
                          + Sum(S \ {sid})
    IN Sum(DOMAIN session_context)

\* A few turns during which a collaborator fails, among searches and
\* order inquiries that go well.
NextFault ==
    /\ HistoryEntries < 2 * MaxTurns
    /\ \/ SearchTurn({"shirt"}, {1}, {{}, 1..3}, {0}, {0})
       \/ OrderTurn({NoneStr, "1234"}, {NoneStr, "a@b.com"}, {NoneStr}, {NoneStr})
       \/ FaultyTurn({"none", "setup", "product_query", "order_query"},
                     {"u@x.com", "a@b.com", NoneStr, " "})
       \/ ClassifierFailTurn({"shirt", "order 1234"}, {{}, 1..3})
       \/ GeneralTurn

SpecFault == Init /\ [][NextFault]_vars

\* The persistence outcomes of the user turn.
PersistOutcomes == {"ok", "failed_before", "failed_after"}

\* A few turns of one user, with and without a session id, while the
\* persistence blocks succeed or fail.
NextPersist ==
    \/ /\ HistoryEntries < 2 * MaxTurns
       /\ SessionTurn({NoneStr, "s1"}, {"u@x.com"}, PersistOutcomes)
    \/ ClearContext({DefaultSessionId})

SpecPersist == Init /\ [][NextPersist]_vars

\* Price values: None, integers, every text of at most MaxLen characters
\* over a currency sign, digits, comma, point and a letter, and the prices
\* "Rs1,234.50", "1234.50" and "abc".
PriceAlphabet == {"R", "1", "5", ",", ".", "a"}

RupeePrice == << "R", "s", "1", ",", "2", "3", "4", ".", "5", "0" >>

PriceValues ==
    {NoneValue, IntegerValue(0), IntegerValue(12)}
    \cup {Text(chars) : chars \in UNION {[1..n -> PriceAlphabet] : n \in 0..MaxLen}}
    \cup {Text(RupeePrice), Text(<< "1", "2", "3", "4", ".", "5", "0" >>),
          Text(<< "a", "b", "c" >>)}

InitConvert ==
    /\ session_context = << >>
    /\ chat_sessions = << >>
    /\ request = DefaultRequest
    /\ analysis = NoAnalysis
    /\ response = DefaultResponse
    /\ conversion \in {[NoConversion EXCEPT !.value = v] : v \in PriceValues}
    /\ tasks = NoTasks
    /\ extraction = NoExtraction

NextConvert == Convert

SpecConvert == InitConvert /\ [][NextConvert]_vars

\* The users of the two-user runs.
Users == {"u@x.com", "a@b.com"}

\* A few turns of two users, each with a session id of their own or with
\* none, while the persistence blocks succeed or fail.
NextUsers ==
    \/ /\ HistoryEntries < 2 * MaxTurns
       /\ \/ SessionTurn({NoneStr, "s1"}, {"u@x.com"}, PersistOutcomes)
          \/ SessionTurn({NoneStr, "s2"}, {"a@b.com"}, PersistOutcomes)
    \/ ClearContext({DefaultSessionId})

SpecUsers == Init /\ [][NextUsers]_vars
\* The requests of the concurrent runs, all for one session: a search, an
\* order inquiry that names an order number, a general message.
LoopRequests ==
    { [DefaultRequest EXCEPT !.intent = "PRODUCT_SEARCH", !.keywords = "shirt",
                             !.message = "show me", !.hits = 1..3],
      [DefaultRequest EXCEPT !.intent = "ORDER_INQUIRY", !.message = "my order",
                             !.cl_order_number = "1234"],
      [DefaultRequest EXCEPT !.intent = "ORDER_INQUIRY", !.message = "my order",
                             !.cl_email = "a@b.com"],
      [DefaultRequest EXCEPT !.intent = "GENERAL_CHAT"] }

\* Up to MaxTurns requests for one session arrive while others are pending
\* or running.
NextLoop ==
    \/ Arrive(LoopRequests)
    \/ BeginTurn
    \/ FinishTurn

SpecLoop == Init /\ [][NextLoop]_vars
\* The most options a product of the extraction runs has.
MaxOptions == 2

\* Products: up to MaxOptions options, named like a colour, a size or
\* something else, or unnamed, and at most one variant.
OptionNamesUsed == {"Color", "COLOUR", "size", " "}

ProductOptions ==
    UNION { [1..n -> [name : OptionNamesUsed,
                      values : {<< >>, << 1 >>, << 2, 1 >>}]] :
            n \in 0..MaxOptions }

ProductVariants ==
    {<< >>} \cup
    { << [option_values |-> << o1, o2, NoValue >>, inventory_quantity |-> q] >> :
        o1 \in {NoValue, 1, 3}, o2 \in {NoValue, 2}, q \in {0, 5} }

InitExtract ==
    /\ session_context = << >>
    /\ chat_sessions = << >>
    /\ request = DefaultRequest
    /\ analysis = NoAnalysis
    /\ response = DefaultResponse
    /\ conversion = NoConversion
    /\ tasks = NoTasks
    /\ extraction \in {[NoExtraction EXCEPT !.product = [options |-> o, variants |-> v]] :
                          o \in ProductOptions, v \in ProductVariants}

NextExtract == Extract

SpecExtract == InitExtract /\ [][NextExtract]_vars
\* Searches for every page up to MaxPage of result lists with no, one,
\* three and NumProducts products.
NextPages ==
    /\ HistoryEntries < 2 * MaxTurns
    /\ \/ SearchTurn({"shirt", "dress"}, 1..MaxPage, {{}, {1}, 1..3, Catalog},
                     {0}, {0, 1})
       \/ GeneralTurn

SpecPages == Init /\ [][NextPages]_vars

\* ------------------------------------------------------------- properties
\* The turn just handled reached the ORDER_INQUIRY branch.
OrderInquiryHandled ==
    /\ request'.intent = "ORDER_INQUIRY"
    /\ ~analysis'.should_use_context

\* The turn just handled reached the search of the PRODUCT_SEARCH branch.
SearchHandled ==
    /\ request'.intent = "PRODUCT_SEARCH"
    /\ ~analysis'.should_use_context
    /\ request'.similar = 0
    /\ product_position_reference(request') = 0

\* C1: at the end of every turn the conversation history of the session
\* holds at most 10 entries.
C1_HistoryWithinLimit ==
    Len(session.conversation_history) <= HistoryLimit

\* C2: a search turn for the cached query (compared case-insensitively)
\* with page_number p > 1 returns entries (p-1)*5+1 .. p*5 of
\* cached_search_results and sends that query to the ranked search no more.
C2_PageServedFromCache ==
    [][ ( /\ SearchHandled
          /\ Lower(SearchQuery(request')) = Lower(session.cached_search_query)
          /\ request'.page_number > 1 )
        => ( /\ response'.exact_matches =
                   Slice(session.cached_search_results,
                         (request'.page_number - 1) * PageSize,
                         request'.page_number * PageSize)
             /\ \A i \in DOMAIN response'.search_calls :
                   response'.search_calls[i] # SearchQuery(request') ) ]_vars

\* C3: a message whose position reference N exceeds the number of recent
\* search products is not answered from a resolved target: the resolver
\* does not set should_use_context and the reply is about no product.
C3_OutOfRangeHasNoTarget ==
    [][ ( /\ Len(request'.positions) = 1
          /\ request'.positions[1] > Len(session.recent_search_products) )
        => ( /\ ~analysis'.should_use_context
             /\ response'.answered_product = NoProduct ) ]_vars

\* The first position reference of the message that lies within the
\* recent search products (0: none does).
RECURSIVE FirstInRange(_, _)
FirstInRange(positions, n) ==
    IF positions = << >> THEN 0
    ELSE IF Head(positions) \in 1..n THEN Head(positions)
    ELSE FirstInRange(Tail(positions), n)

\* C4: a position reference N with 1 <= N <= len(recent_search_products)
\* resolves the target to recent_search_products[N-1] (1-indexed), whatever
\* the selected and the context product are.
C4_PositionWins ==
    [][ LET n == FirstInRange(request'.positions,
                              Len(session.recent_search_products))
        IN n # 0 =>
             analysis'.target_product = session.recent_search_products[n] ]_vars

\* C4 witness: a position reference resolved to a product other than the
\* selected one, which the reply then is about.
C4_Witness ==
    /\ request.positions = << 1 >>
    /\ Len(session.recent_search_products) >= 1
    /\ session.selected_product # NoProduct
    /\ session.selected_product # session.recent_search_products[1]
    /\ analysis.target_product = session.recent_search_products[1]
    /\ response.answered_product = session.recent_search_products[1]

\* C5: an order inquiry with an order number and no email, neither in the
\* message nor saved, asks for the email and looks no order up.
C5_NumberOnlyAsksForEmail ==
    [][ ( /\ OrderInquiryHandled
          /\ request'.cl_order_number # NoneStr \/ request'.rx_order_number # NoneStr
          /\ request'.cl_email = NoneStr
          /\ request'.rx_email = NoneStr
          /\ session.pending_order_email = NoneStr )
        => ( /\ response'.kind = "ask_email"
             /\ response'.order_lookup = << >> ) ]_vars

\* C6: after a lookup that found no order, an order inquiry that supplies
\* neither an order number nor an email asks for both and looks no order up.
C6_AfterNotFoundAsksForBoth ==
    [][ ( /\ response.kind = "order_not_found"
          /\ OrderInquiryHandled
          /\ request'.cl_order_number = NoneStr
          /\ request'.rx_order_number = NoneStr
          /\ request'.cl_email = NoneStr
          /\ request'.rx_email = NoneStr )
        => ( /\ response'.kind = "ask_both"
             /\ response'.order_lookup = << >> ) ]_vars

\* C7: once an order has been looked up, found or not, both pending slots
\* are cleared.
C7_LookupClearsSlots ==
    ( \/ response.order_lookup # << >>
      \/ response.kind \in {"order_not_found", "order_details"} ) =>
        /\ session.pending_order_email = NoneStr
        /\ session.pending_order_number = NoneStr

\* C7 witness: an order was looked up and found.
C7_Witness ==
    /\ response.order_lookup # << >>
    /\ response.kind = "order_details"
    /\ response.orders # << >>
    /\ session.pending_order_number = NoneStr

\* What the current message supplies for a slot: the classifier's value,
\* else the value of the fallback patterns.
FromMessage(cl, rx) == IF cl # NoneStr THEN cl ELSE rx

\* C8: in an order inquiry a slot value present in the current message
\* replaces the saved one; the saved one is used only for a slot the turn
\* supplies no value for.
C8_MessageValueReplacesSaved ==
    [][ OrderInquiryHandled =>
          LET number == FromMessage(request'.cl_order_number, request'.rx_order_number)
              email  == FromMessage(request'.cl_email, request'.rx_email)
          IN /\ number # NoneStr => response'.order_number = number
             /\ email # NoneStr => response'.order_email = email ]_vars

\* C9: a non-numeric order number with both slots present asks for a
\* numeric one, looks no order up and leaves the saved slots as they were
\* saved: neither is cleared.
C9_InvalidNumberKeepsSlots ==
    [][ response'.kind = "invalid_order_number" =>
          LET saved == SavePending(session, FirstEmail(request'),
                                   request'.cl_order_number)
          IN /\ ~IsNumeric(response'.order_number)
             /\ response'.order_lookup = << >>
             /\ session'.pending_order_number = saved.pending_order_number
             /\ session'.pending_order_email = saved.pending_order_email
             /\ session'.pending_order_number = response'.order_number
             /\ session'.pending_order_email = response'.order_email
             /\ session'.pending_order_number # NoneStr
             /\ session'.pending_order_email # NoneStr ]_vars

\* C9 witness: the reply to a non-numeric order number, both slots kept.
C9_Witness ==
    /\ response.kind = "invalid_order_number"
    /\ response.order_number = "12AB"
    /\ session.pending_order_number = "12AB"
    /\ session.pending_order_email # NoneStr

\* C10: a product question for which no target product resolves is met
\* with a clarification prompt: the turn runs no product search and its
\* reply is about no product.
C10_NoTargetClarifies ==
    [][ ( /\ analysis'.is_product_question
          /\ analysis'.target_product = NoProduct )
        => ( /\ response'.search_calls = << >>
             /\ response'.answered_product = NoProduct
             /\ response'.exact_matches = << >> ) ]_vars

\* C11: with a context product, no selected product and a product question
\* that holds no position reference, the turn answers about the context
\* product, sends no query to the ranked search, looks no order up and
\* leaves the cached results and query, the numbered and the recent
\* products and both pending order slots as they were.
C11_ContextAnswerFrame ==
    [][ ( /\ session.context_product # NoProduct
          /\ session'.selected_product = NoProduct
          /\ request'.positions = << >>
          /\ analysis'.is_product_question )
        => ( /\ response'.kind = "product_answer"
             /\ response'.answered_product = session.context_product
             /\ response'.context_product = session.context_product
             /\ response'.search_calls = << >>
             /\ response'.order_lookup = << >>
             /\ session'.cached_search_results = session.cached_search_results
             /\ session'.cached_search_query = session.cached_search_query
             /\ session'.numbered_products = session.numbered_products
             /\ session'.recent_search_products = session.recent_search_products
             /\ session'.pending_order_email = session.pending_order_email
             /\ session'.pending_order_number = session.pending_order_number ) ]_vars

\* C11 witness: a question answered about the context product of a session
\* that has search results cached and no selected product.
C11_Witness ==
    /\ response.kind = "product_answer"
    /\ request.positions = << >>
    /\ request.intent = "PRODUCT_SEARCH"
    /\ session.selected_product = NoProduct
    /\ session.cached_search_results # << >>
    /\ response.answered_product = session.context_product
    /\ response.search_calls = << >>

\* C12: once a product is selected, a later message that carries no new
\* selection and no position reference within the recent products resolves
\* its target to the selected product, whatever the context product has
\* become, and a product question is answered about the selected product.
C12_SelectionPersists ==
    [][ ( /\ session.selected_product # NoProduct
          /\ request'.selected_product_id = NoProduct
          /\ FirstInRange(request'.positions,
                          Len(session.recent_search_products)) = 0 )
        => ( /\ session'.selected_product = session.selected_product
             /\ analysis'.target_product = session.selected_product
             /\ analysis'.is_product_question =>
                   response'.answered_product = session.selected_product ) ]_vars

\* C12 witness: after a search whose first result is another product, a
\* question without a selection is answered about the selected product.
C12_Witness ==
    /\ response.kind = "product_answer"
    /\ request.selected_product_id = NoProduct
    /\ request.positions = << >>
    /\ session.selected_product # NoProduct
    /\ session.recent_search_products # << >>
    /\ session.recent_search_products[1] # session.selected_product
    /\ response.answered_product = session.selected_product

\* C13: in every session numbered_products has exactly the keys
\* 1..len(recent_search_products), and numbered_products[i] is
\* recent_search_products[i-1].
C13_NumberedMatchesRecent ==
    \A sid \in DOMAIN session_context :
        LET s == session_context[sid]
        IN /\ DOMAIN s.numbered_products = 1..Len(s.recent_search_products)
           /\ \A i \in DOMAIN s.numbered_products :
                  s.numbered_products[i] = s.recent_search_products[i]

\* C13 witness: a search has numbered a full page of five products.
C13_Witness ==
    /\ response.kind = "first_matches"
    /\ Len(session.recent_search_products) = PageSize
    /\ DOMAIN session.numbered_products = 1..PageSize
    /\ session.numbered_products[PageSize] = session.recent_search_products[PageSize]

\* C14: in every session recent_search_products is one page of
\* cached_search_results: entries (p-1)*5+1 .. p*5 of it for some page p,
\* in the same order.
C14_RecentIsPageOfCache ==
    \A sid \in DOMAIN session_context :
        LET s == session_context[sid]
        IN \E page \in 1..(Len(s.cached_search_results) + 1) :
               s.recent_search_products =
                   Slice(s.cached_search_results,
                         (page - 1) * PageSize, page * PageSize)

\* C14 witness: a filtered search cached fewer products than the search
\* returned and shows them as the recent ones.
C14_Witness ==
    /\ request.price_max # 0
    /\ response.kind = "all_matches"
    /\ session.cached_search_results # << >>
    /\ Len(session.cached_search_results) < Cardinality(request.hits)
    /\ session.recent_search_products = session.cached_search_results

\* C15: a search that asks for N results and finds at least one match
\* returns at most N exact matches; with N = 1 the reply is "Here's the
\* product that matches", the exact slider is shown and there is exactly
\* one exact match.
C15_AtMostRequested ==
    ( /\ request.intent = "PRODUCT_SEARCH"
      /\ request.max_results > 0
      /\ request.page_number = 1
      /\ response.total_exact_matches >= 1 )
    => ( /\ Len(response.exact_matches) <= request.max_results
         /\ request.max_results = 1 =>
               /\ response.kind = "the_product"
               /\ response.show_exact_slider
               /\ Len(response.exact_matches) = 1 )

\* Two floats are the same number.
FloatEq(a, b) == a.num * b.den = b.num * a.den

\* C16: safe_float_convert maps the price text "Rs1,234.50" (currency
\* sign, thousands comma) to 1234.50 and maps None and "abc" to 0.0.
C16_PriceCoercion ==
    conversion.done =>
        /\ conversion.value = Text(RupeePrice) =>
               FloatEq(conversion.result, Float(123450, 100))
        /\ conversion.value = NoneValue => FloatEq(conversion.result, Float(0, 1))
        /\ conversion.value = Text(<< "a", "b", "c" >>) =>
               FloatEq(conversion.result, Float(0, 1))

\* C17: a turn during which an exception reaches the handler's outer
\* except ends with the generic reply: intent "error", confidence 0, no
\* exact matches, no suggestions, no suggested questions, no orders, no
\* context product, totals 0, page 1 and both has_more flags false.
C17_CatchAll ==
    response.raised # NoneStr =>
        /\ response.kind = "error"
        /\ response.intent = "error"
        /\ response.confidence = 0
        /\ response.exact_matches = << >>
        /\ response.suggestions = << >>
        /\ response.suggested_questions = << >>
        /\ response.orders = << >>
        /\ response.context_product = NoProduct
        /\ ~response.show_exact_slider
        /\ ~response.show_suggestions_slider
        /\ response.total_exact_matches = 0
        /\ response.total_suggestions = 0
        /\ response.current_page = 1
        /\ ~response.has_more_exact
        /\ ~response.has_more_suggestions

\* C17 witness: the order query raised after the turn had saved the order
\* number, and the turn ended with the generic reply.
C17_Witness ==
    /\ response.raised = "order_query"
    /\ response.kind = "error"
    /\ session.pending_order_number = "1234"
    /\ session.context_product # NoProduct

\* The reply kinds of the product-search branch.
SearchReplyKinds ==
    {"the_product", "no_exact_match", "no_exact_matches", "one_match",
     "first_matches", "all_matches", "no_products"}

C19_PersistenceIndependent ==
    [][ response'.kind # "context_cleared" =>
          \A p \in PersistOutcomes, pa \in BOOLEAN :
              LET other == chat_endpoint(session_context, chat_sessions,
                               [request' EXCEPT !.persist = p,
                                                !.persist_assistant = pa])
              IN /\ other.r = response'
                 /\ other.ctx = session_context' ]_vars

\* C20: a reply carries at most 4 suggested questions, and after a product
\* question of a type T other than "general" none of them is a question
\* of type T.
C20_SuggestedQuestions ==
    /\ Len(response.suggested_questions) <= 4
    /\ ( analysis.should_use_context /\ analysis.question_type # "general" ) =>
          \A i \in DOMAIN response.suggested_questions :
              question_type_of(Mentions(response.suggested_questions[i]))
                  # analysis.question_type

\* The key of the session record a request is served on.
RecordKey(ctx, db, req) == PersistUserTurn(ctx, db, req).session_id

\* C21: a chat turn changes no session record but the one it is served on,
\* and a request of another user that sends no session id is never served
\* on that same record.
C21_SessionIsolation ==
    [][ response'.kind # "context_cleared" =>
          LET k == RecordKey(session_context, chat_sessions, request')
          IN /\ \A id \in DOMAIN session_context \ {k} :
                    /\ id \in DOMAIN session_context'
                    /\ session_context'[id] = session_context[id]
             /\ \A e \in Users \ {request'.email}, p \in PersistOutcomes :
                    RecordKey(session_context', chat_sessions',
                              [DefaultRequest EXCEPT !.email = e,
                                                     !.session_id = NoneStr,
                                                     !.persist = p]) # k ]_vars

\* C22 (as claimed): nothing serializes the turns of one session: while a
\* call for the session is between its first statement and its return, a
\* pending call for the same session can start and work on the same record.
C22_TurnsInterleave ==
    ( TasksAt(tasks, "running") # {} /\ TasksAt(tasks, "pending") # {} )
        => ENABLED BeginTurn

\* C22 (amended): the turns of one session are serialized by the event
\* loop: at most one call is running, and a call that returns leaves the
\* session records, the chat_sessions table and the reply that
\* chat_endpoint gives when run alone on what the call found when it
\* started, so no update of another request is lost or overwritten.
C22_TurnsSerialized ==
    [][ /\ Cardinality(TasksAt(tasks', "running")) <= 1
        /\ \A c \in TasksAt(tasks, "running") \cap TasksAt(tasks', "done") :
               LET alone == chat_endpoint(tasks[c].begun_ctx, tasks[c].begun_db,
                                          tasks[c].req)
               IN /\ session_context' = alone.ctx
                  /\ chat_sessions' = alone.db
                  /\ response' = alone.r ]_vars

\* C22 witness: two calls for the session have returned, one of which
\* arrived while the other was pending or running, and the history holds
\* the two entries of each.
C22_Witness ==
    \E c, d \in DOMAIN tasks :
        /\ c # d
        /\ tasks[c].pc = "done"
        /\ tasks[d].pc = "done"
        /\ tasks[d].overlapped
        /\ Len(session.conversation_history) = 4
        /\ session.pending_order_email # NoneStr
        /\ session.cached_search_results # << >>

\* C23: a chat request whose email is missing or blank is answered with
\* HTTP 400, and no session record or chat_sessions row is created or
\* changed.
C23_BlankEmailRejected ==
    [][ ( /\ response'.kind # "context_cleared"
          /\ request'.fault = "none"
          /\ Strip(request'.email) = NoneStr )
        => /\ response'.status_code = 400
           /\ session_context' = session_context
           /\ chat_sessions' = chat_sessions ]_vars

\* The option name in lower case.
LowerName(name) ==
    IF name = "Color" THEN "color"
    ELSE IF name = "COLOUR" THEN "colour"
    ELSE name

\* The values of the options of the result whose lower-case name is in Names.
ValuesNamed(result, Names) ==
    UNION { {result.options[name][i] : i \in DOMAIN result.options[name]} :
            name \in {n \in DOMAIN result.options : LowerName(n) \in Names} }

\* The members of a list.
Members(list) == {list[i] : i \in DOMAIN list}

\* C24: the result of extract_product_options has the keys colors, sizes,
\* fabrics and age_groups besides options; colors and sizes hold the
\* values of the options named color/colour and size in any case; for a
\* product without options and variants, options, colors, sizes and
\* stock_status are empty.
C24_ConvenienceLists ==
    extraction.done =>
        LET result == extraction.result
        IN /\ {"options", "colors", "sizes", "fabrics", "age_groups"}
                  \subseteq DOMAIN result
           /\ Members(result.colors) = ValuesNamed(result, {"color", "colour"})
           /\ Members(result.sizes) = ValuesNamed(result, {"size"})
           /\ extraction.product = NoExtraction.product =>
                  /\ DOMAIN result.options = {}
                  /\ result.colors = << >>
                  /\ result.sizes = << >>
                  /\ result.stock_status = << >>

\* C25: a message that asks for products similar to #N, N a key of
\* numbered_products, runs one product search whose query is built from
\* the title, product type and vendor of product #N, and the reply carries
\* the results of that search.
C25_SimilarRunsSearch ==
    [][ ( /\ request'.intent = "PRODUCT_SEARCH"
          /\ ~analysis'.should_use_context
          /\ response'.kind # "context_cleared"
          /\ request'.similar \in DOMAIN session.numbered_products )
        => /\ Len(response'.search_calls) = 1
           /\ response'.search_calls[1] =
                  similarity_query(session.numbered_products[request'.similar])
           /\ response'.exact_matches =
                  FirstN(search_products(request'.hits, search_limit(0)), PageSize) ]_vars

\* C26: a product-search turn that runs a fresh search leaves
\* numbered_products and recent_search_products built from the page of
\* that search; after a search that returns nothing both are empty.
C26_SearchRebuildsNumbered ==
    [][ ( SearchHandled /\ response'.search_calls # << >>
          /\ response'.kind # "error" )
        => /\ session'.recent_search_products = response'.exact_matches
           /\ session'.numbered_products = NumberedProducts(response'.exact_matches) ]_vars

\* C27: in every search reply has_more_exact is true exactly when
\* page_number * 5 is less than the number of filtered matches.
C27_HasMoreExact ==
    [][ ( SearchHandled /\ response'.kind # "error" )
        => ( response'.has_more_exact
               <=> request'.page_number * PageSize < response'.total_exact_matches )
      ]_vars

\* The filtered matches of the search a request asks for.
FilteredMatches(req) ==
    apply_product_filters(
        SortedSeq(search_products(req.hits, search_limit(req.max_results))),
        req.price_max)

\* C28: a search turn whose page_number points past the last page of the
\* matches ends in a search reply with an empty list of exact matches and
\* never in the error reply, whatever the number of matches.
C28_PagePastEnd ==
    [][ ( /\ SearchHandled
          /\ (request'.page_number - 1) * PageSize >= Len(FilteredMatches(request')) )
        => /\ response'.kind # "error"
           /\ response'.exact_matches = << >> ]_vars

\* C29: in every session record the conversation history alternates roles:
\* no two consecutive entries are both of the user or both of the assistant.
C29_HistoryAlternates ==
    \A sid \in DOMAIN session_context :
        LET history == session_context[sid].conversation_history
        IN \A i \in 1..(Len(history) - 1) : history[i] # history[i + 1]

\* C30: whenever the selected product of a session record is set, it is
\* the product whose id is the record's selected_product_id.
C30_SelectedMatchesId ==
    \A sid \in DOMAIN session_context :
        session_context[sid].selected_product # NoProduct =>
            session_context[sid].selected_product
                = session_context[sid].selected_product_id

====
